---------------------------- MODULE Spec2Model ----------------------------
(***************************************************************************)
(* The sliding-window rate limiter of api/analyze.ts and the request       *)
(* handler that guards the external text API with it.                      *)
(*                                                                         *)
(* Time is the value of Date.now() in milliseconds, counted from the first *)
(* instant the model looks at (the algorithm only compares differences of  *)
(* instants, so the origin does not matter).  One action models the code   *)
(* that runs between two points where the handler can yield: JavaScript    *)
(* runs a callback to completion, and the only await in the handler is the *)
(* external API call.                                                      *)
(***************************************************************************)
EXTENDS Integers, Sequences, FiniteSets, TLC

VARIABLES
    requestLog,   \* Map<string, number[]>: a function whose DOMAIN is the keys
    now,          \* the value Date.now() returns
    quota,        \* the limit compared against in checkRateLimit
    windowMs,     \* the width of the window subtracted from now
    hist,         \* per identity, the checkRateLimit calls made: [t, ok]
    ncalls,       \* checkRateLimit calls made since the process warmed up
    pending,      \* number of invocations suspended at the API call's await
    last          \* what the handler did in the step just taken

vars == <<requestLog, now, quota, windowMs, hist, ncalls, pending, last>>

-----------------------------------------------------------------------------
(* Bounds of the model *)

\* checkRateLimit calls made after the process has warmed up
MaxCalls == 2

-----------------------------------------------------------------------------
(* Program constants *)

MAX_REQUESTS_PER_HOUR == 20

HOUR_MS == 60 * 60 * 1000

\* The configuration the code is built with.
CodeConfig == [quota |-> MAX_REQUESTS_PER_HOUR, windowMs |-> HOUR_MS]

\* The configuration of the specification's concrete scenario (section 8).
ScenarioConfig == [quota |-> 2, windowMs |-> 1000]

-----------------------------------------------------------------------------
(* Values *)

\* undefined
None == "undefined"

\* the identities the handler can derive
IPs == {"a", "unknown"}

Fields == {"primaryKeyword", "city", "state", "highRankingUrl", "lowRankingUrl"}

\* a JavaScript value is falsy when it is undefined or the empty string
Falsy(v) == v = None \/ v = ""

ValidFields == [f \in Fields |-> "x"]

\* req.body is undefined when the request carries no parsed body
NoBody == [defined |-> FALSE, fields |-> [f \in Fields |-> None]]

ValidBody == [defined |-> TRUE, fields |-> ValidFields]

\* Request bodies: no body at all, the valid body, the empty object, a body
\* with one field absent and a body with one field empty.
Bodies ==
    {NoBody, ValidBody, [defined |-> TRUE, fields |-> [f \in Fields |-> None]],
     [defined |-> TRUE, fields |-> [ValidFields EXCEPT !["primaryKeyword"] = None]],
     [defined |-> TRUE, fields |-> [ValidFields EXCEPT !["lowRankingUrl"] = ""]]}

\* <<x-forwarded-for, socket.remoteAddress>> of a request
Origins == {<<"a", None>>, <<"", "a">>, <<None, None>>}

\* The requests the model sends, each with whether process.env holds the API
\* key when it is handled.  What the handler never reads on a path is fixed
\* there: the origin and the body of an OPTIONS or another non-POST request,
\* and the key unless the body is valid.
Reqs ==
    {[method |-> m, origin |-> <<None, None>>, body |-> NoBody, apiKey |-> TRUE] :
        m \in {"OPTIONS", "GET"}}
    \cup {[method |-> "POST", origin |-> o, body |-> b, apiKey |-> TRUE] :
        o \in Origins, b \in Bodies}
    \cup {[method |-> "POST", origin |-> o, body |-> ValidBody, apiKey |-> FALSE] :
        o \in Origins}

\* The instants Date.now() takes in the model: a burst at 0, two calls a
\* little later, and the instants around the end of the window of 0 and 100.
Instants ==
    {0, 100, 200, windowMs - 1, windowMs, windowMs + 1}

-----------------------------------------------------------------------------
(* checkRateLimit *)

\* a lookup that reads the entry of whichever key the map holds
RequestsOfAnyKey(log, ip) ==
    IF DOMAIN log = {} THEN <<>> ELSE log[CHOOSE k \in DOMAIN log : TRUE]

\* requestLog.get(ip) || []
Requests(log, ip) == IF ip \in DOMAIN log THEN log[ip] ELSE <<>>

IsRecentInclusive(time, t) == time >= t - windowMs

\* time > oneHourAgo, with oneHourAgo = now - 60 * 60 * 1000
IsRecent(time, t) == time > t - windowMs

\* requests.filter(time => time > oneHourAgo)
RecentRequests(log, ip, t) ==
    SelectSeq(Requests(log, ip), LAMBDA time : IsRecent(time, t))

OverLimitOffByOne(n) == n > quota

\* recentRequests.length >= MAX_REQUESTS_PER_HOUR
OverLimit(n) == n >= quota

\* the value checkRateLimit returns
Allowed(log, ip, t) == ~OverLimit(Len(RecentRequests(log, ip, t)))

\* a write that replaces the map by one holding the written key alone
MapSetAlone(log, ip, entry) == [k \in {ip} |-> entry]

MapSetShared(log, ip, entry) == [k \in DOMAIN log \cup {ip} |-> entry]

\* requestLog.set(ip, entry)
MapSet(log, ip, entry) ==
    [k \in DOMAIN log \cup {ip} |-> IF k = ip THEN entry ELSE log[k]]

AdmitOverwrites(log, ip, t) == MapSet(log, ip, <<t>>)

\* recentRequests.push(now); requestLog.set(ip, recentRequests)
Admit(log, ip, t) == MapSet(log, ip, Append(RecentRequests(log, ip, t), t))

LogAfterRecordsRejected(log, ip, t) ==
    IF Allowed(log, ip, t) THEN Admit(log, ip, t)
    ELSE MapSet(log, ip, Append(Requests(log, ip), t))

\* the map after checkRateLimit(ip) has run at instant t
LogAfter(log, ip, t) == IF Allowed(log, ip, t) THEN Admit(log, ip, t) ELSE log

\* the call record the model keeps of a checkRateLimit call
HistAfter(h, log, ip, t) ==
    [h EXCEPT ![ip] = Append(@, [t |-> t, ok |-> Allowed(log, ip, t)])]

\* one call of checkRateLimit(ip) at instant t, on the map and its call record
Call(st, ip, t) ==
    [log  |-> LogAfter(st.log, ip, t),
     hist |-> HistAfter(st.hist, st.log, ip, t)]

\* n calls of checkRateLimit(ip) in a row at instant t (each intermediate
\* state is bound as a value, so that it is computed once)
RECURSIVE Burst(_, _, _, _)
Burst(st, ip, t, n) ==
    IF n = 0 THEN st
    ELSE CHOOSE r \in {Call(s, ip, t) : s \in {Burst(st, ip, t, n - 1)}} : TRUE

\* the calls of checkRateLimit(ip) at the first n instants of the sequence
\* times, in order
RECURSIVE Replay(_, _, _, _)
Replay(st, ip, times, n) ==
    IF n = 0 THEN st
    ELSE CHOOSE r \in {Call(s, ip, times[n]) : s \in {Replay(st, ip, times, n - 1)}} :
            TRUE

-----------------------------------------------------------------------------
(* handler *)

\* the request carries neither a forwarded-for value nor a remote address
NoIdentity(xff, remote) == Falsy(xff) /\ Falsy(remote)

\* a resolution that keys a request without identity by a caller's address
ClientIpNoSentinel(xff, remote) ==
    IF ~Falsy(xff) THEN xff ELSE IF ~Falsy(remote) THEN remote ELSE "a"

\* req.headers['x-forwarded-for'] || req.socket.remoteAddress || 'unknown'
ClientIp(xff, remote) ==
    IF ~Falsy(xff) THEN xff ELSE IF ~Falsy(remote) THEN remote ELSE "unknown"

\* !primaryKeyword || !city || !state || !highRankingUrl || !lowRankingUrl
MissingFields(body) == \E f \in Fields : Falsy(body.fields[f])

\* a field is missing from a request when the request has no body, or the
\* body does not hold the field, or holds it empty
Missing(body) == ~body.defined \/ MissingFields(body)

\* req.method === 'OPTIONS'
IsOptions(method) == method = "OPTIONS"

NotPostNever(method) == FALSE

\* req.method !== 'POST'
NotPost(method) == method # "POST"

RejectedFallsThrough(pre, log) ==
    [trace |-> pre \o <<"respond", "destructure", "validate">>,
     status |-> 429, error |-> "Rate limit exceeded. Try again later.",
     log |-> log, checked |-> TRUE]

\* if (!checkRateLimit(ip)) return res.status(429).json(...)
Rejected(pre, log) ==
    [trace |-> pre \o <<"respond">>, status |-> 429,
     error |-> "Rate limit exceeded. Try again later.", log |-> log,
     checked |-> TRUE]

\* The catch block's answer to a thrown error whose status is errStatus
\* (0: the error has no status): 401 for a 401, 500 for anything else.
CatchResponse(errStatus) ==
    IF errStatus = 401
    THEN [status |-> 401, error |-> "Invalid API key"]
    ELSE [status |-> 500, error |-> "Analysis failed"]

\* The handler from its entry to its first await or its return: the steps it
\* takes in order, the status it answers with (0: suspended at the await),
\* the map it leaves, and whether it called checkRateLimit.
HandlerSync(method, ip, body, apiKey, log, t) ==
    LET cors == <<"setHeader">>
    IN  IF IsOptions(method)
        THEN [trace |-> cors \o <<"isOptions", "respond">>,
              status |-> 200, error |-> None, log |-> log, checked |-> FALSE]
        ELSE IF NotPost(method)
        THEN [trace |-> cors \o <<"isOptions", "isPost", "respond">>,
              status |-> 405, error |-> "Method not allowed", log |-> log,
              checked |-> FALSE]
        ELSE LET pre == cors \o <<"isOptions", "isPost", "checkRateLimit">>
                 log2 == LogAfter(log, ip, t)
             IN  IF ~Allowed(log, ip, t)
                 THEN Rejected(pre, log2)
                 ELSE IF ~body.defined
                 THEN [trace |-> pre \o <<"destructure", "catch", "respond">>,
                       status |-> CatchResponse(0).status,
                       error |-> CatchResponse(0).error,
                       log |-> log2, checked |-> TRUE]
                 ELSE IF MissingFields(body)
                 THEN [trace |-> pre \o <<"destructure", "validate", "respond">>,
                       status |-> 400, error |-> "Missing required fields",
                       log |-> log2, checked |-> TRUE]
                 ELSE IF ~apiKey
                 THEN [trace |-> pre \o <<"destructure", "validate", "apiKey",
                                          "respond">>,
                       status |-> 500, error |-> "Server configuration error",
                       log |-> log2, checked |-> TRUE]
                 ELSE [trace |-> pre \o <<"destructure", "validate", "apiKey",
                                          "buildAnalysisPrompt",
                                          "messages.create">>,
                       status |-> 0, error |-> None, log |-> log2,
                       checked |-> TRUE]

\* Which failure a request meets, read off the request and the state it
\* arrives in: its identity is over quota, a required field is missing, or
\* the API key is not configured ("none": it is forwarded to the API, where
\* the failure, if any, is the upstream one).
FailureOf(req, log, t) ==
    IF req.method # "POST" THEN "none"
    ELSE IF ~Allowed(log, ClientIp(req.origin[1], req.origin[2]), t)
    THEN "ratelimit"
    ELSE IF Missing(req.body) THEN "fields"
    ELSE IF ~req.apiKey THEN "config"
    ELSE "none"

-----------------------------------------------------------------------------
(* The state machine *)

NoHist == [ip \in IPs |-> <<>>]

EmptyMap == <<>>

\* no handler step has just run
Idle ==
    [step |-> "idle", method |-> None, ip |-> None, anon |-> FALSE,
     missing |-> FALSE,
     cause |-> "none", status |-> 0, error |-> None, trace |-> <<>>]

\* The calls of identity "a" a process may have served before the model
\* takes over: none (a cold start), a burst at instant 0 that leaves one
\* slot of the quota or none, or a burst that leaves one slot followed by a
\* call at instant 100.
WarmUps(cfg) ==
    {[i \in 1..n |-> 0] : n \in {0, cfg.quota - 1, cfg.quota}}
    \cup {[i \in 1..cfg.quota |-> IF i < cfg.quota THEN 0 ELSE 100]}

\* The identity that made the warm-up calls: "a", or the requests without
\* identity, which between them have used up the quota at instant 0.
WarmUpsOf(cfg) ==
    {<<"a", w>> : w \in WarmUps(cfg)}
    \cup {<<"unknown", [i \in 1..cfg.quota |-> 0]>>}

\* The state the warm-up calls leave, computed by making them.
InitWith(cfg) ==
    /\ quota = cfg.quota
    /\ windowMs = cfg.windowMs
    /\ \E u \in WarmUpsOf(cfg) :
         LET w  == u[2]
             st == Replay([log |-> EmptyMap, hist |-> NoHist], u[1], w, Len(w))
         IN  /\ requestLog = st.log
             /\ hist = st.hist
             /\ now = IF w = <<>> THEN 0 ELSE w[Len(w)]
    /\ ncalls = 0
    /\ pending = 0
    /\ last = Idle

Init == InitWith(CodeConfig)

ConfigInit == \E cfg \in {CodeConfig, ScenarioConfig} : InitWith(cfg)

\* Date.now() moves on
Tick ==
    /\ \E t \in Instants : t > now /\ now' = t
    /\ last' = Idle
    /\ UNCHANGED <<requestLog, quota, windowMs, hist, ncalls, pending>>

\* A request arrives and the handler runs to its first await or its return.
Receive ==
    /\ \E req \in Reqs :
         LET ip == ClientIp(req.origin[1], req.origin[2])
         IN  \E r \in {HandlerSync(req.method, ip, req.body, req.apiKey,
                                   requestLog, now)} :
             /\ r.checked => ncalls < MaxCalls
             /\ requestLog' = r.log
             /\ hist' = IF r.checked
                        THEN HistAfter(hist, requestLog, ip, now) ELSE hist
             /\ ncalls' = IF r.checked THEN ncalls + 1 ELSE ncalls
             /\ pending' = IF r.status = 0 THEN pending + 1 ELSE pending
             /\ last' = [step |-> "entry", method |-> req.method,
                         ip |-> IF r.checked THEN ip ELSE None,
                         anon |-> r.checked
                                  /\ NoIdentity(req.origin[1], req.origin[2]),
                         missing |-> r.checked /\ r.status # 429 /\ Missing(req.body),
                         cause |-> FailureOf(req, requestLog, now),
                         status |-> r.status, error |-> r.error,
                         trace |-> r.trace]
    /\ UNCHANGED <<now, quota, windowMs>>

\* The external API answers and a suspended invocation relays the text.
ApiResolve ==
    /\ pending > 0
    /\ pending' = pending - 1
    /\ last' = [step |-> "resume", method |-> "POST", ip |-> None,
                anon |-> FALSE,
                missing |-> FALSE, cause |-> "none", status |-> 200,
                error |-> None, trace |-> <<"message", "respond">>]
    /\ UNCHANGED <<requestLog, now, quota, windowMs, hist, ncalls>>

\* error.status of what the external API call throws: 401, another status,
\* or not set (0)
ErrStatuses == {401, 429, 0}

\* a catch block that gives a slot back: it drops the latest timestamp of
\* an identity
ApiRejectRefunds ==
    /\ pending > 0
    /\ \E errStatus \in ErrStatuses :
         /\ pending' = pending - 1
         /\ last' = [step |-> "resume", method |-> "POST", ip |-> None,
                     anon |-> FALSE,
                     missing |-> FALSE, cause |-> "upstream",
                     status |-> CatchResponse(errStatus).status,
                     error |-> CatchResponse(errStatus).error,
                     trace |-> <<"catch", "respond">>]
    /\ \E ip \in DOMAIN requestLog :
         requestLog' = [requestLog EXCEPT ![ip] = SubSeq(@, 1, Len(@) - 1)]
    /\ UNCHANGED <<now, quota, windowMs, hist, ncalls>>

\* The external API call of a suspended invocation throws.
ApiReject ==
    /\ pending > 0
    /\ \E errStatus \in ErrStatuses :
         /\ pending' = pending - 1
         /\ last' = [step |-> "resume", method |-> "POST", ip |-> None,
                     anon |-> FALSE,
                     missing |-> FALSE, cause |-> "upstream",
                     status |-> CatchResponse(errStatus).status,
                     error |-> CatchResponse(errStatus).error,
                     trace |-> <<"catch", "respond">>]
    /\ UNCHANGED <<requestLog, now, quota, windowMs, hist, ncalls>>

Next == Tick \/ Receive \/ ApiResolve \/ ApiReject

Spec == Init /\ [][Next]_vars

ConfigSpec == ConfigInit /\ [][Next]_vars

-----------------------------------------------------------------------------
(* Properties *)

\* the sequence stored for an identity (empty when it has no entry)
Stored(ip) == Requests(requestLog, ip)

\* the instants of the admitted calls among the calls h
AdmittedTimes(h) ==
    LET adm == SelectSeq(h, LAMBDA c : c.ok)
    IN  [i \in 1..Len(adm) |-> adm[i].t]

\* how many elements of the sequence q lie strictly after instant c
CountAfter(q, c) == Cardinality({i \in 1..Len(q) : q[i] > c})

\* C1: every identity's stored sequence holds at most quota timestamps, and
\* at the current instant no identity has more than quota admitted requests
\* in the trailing window (now - windowMs, now], neither among its stored
\* timestamps nor among the calls that were admitted.
C1_QuotaBound ==
    \A ip \in IPs :
        /\ Len(Stored(ip)) <= quota
        /\ CountAfter(Stored(ip), now - windowMs) <= quota
        /\ CountAfter(AdmittedTimes(hist[ip]), now - windowMs) <= quota

\* an identity's quota is full and a call of it has just been refused
C1_Witness ==
    \E ip \in IPs :
        /\ Len(Stored(ip)) = quota
        /\ last.step = "entry" /\ last.ip = ip /\ last.status = 429

\* C2: the first call of an identity is admitted, and of its calls made at
\* the instant of its first call exactly the first quota are admitted (the
\* next one is rejected), whatever the other identities have done.
C2_FirstQuotaCalls ==
    \A ip \in IPs :
        hist[ip] # <<>> =>
            /\ hist[ip][1].ok
            /\ \A i \in 1..Len(hist[ip]) :
                   hist[ip][i].t = hist[ip][1].t =>
                       (hist[ip][i].ok <=> i <= quota)

\* one identity has made quota + 1 calls at one instant, the other has been
\* admitted after that identity's quota was used up
C2_Witness ==
    /\ Len(hist["a"]) > quota
    /\ hist["a"][quota + 1].t = hist["a"][1].t
    /\ ~hist["a"][quota + 1].ok
    /\ hist["unknown"] # <<>>
    /\ hist["unknown"][1].ok

\* a step in which checkRateLimit(ip) was called and refused
RejectedCall(ip) ==
    /\ Len(hist'[ip]) = Len(hist[ip]) + 1
    /\ ~hist'[ip][Len(hist'[ip])].ok

\* C3: a rejected call leaves the whole map unchanged, a check made right
\* after it is rejected again, and once a call of an identity is rejected
\* every further call of it at the same instant is rejected too.
C3_RejectionKeepsState ==
    /\ [][\A ip \in IPs :
            RejectedCall(ip) =>
                /\ requestLog' = requestLog
                /\ ~Allowed(requestLog', ip, now')]_vars
    /\ [](\A ip \in IPs : \A i \in 1..Len(hist[ip]) - 1 :
              (~hist[ip][i].ok /\ hist[ip][i + 1].t = hist[ip][i].t)
                  => ~hist[ip][i + 1].ok)

\* quota admitted calls, then two rejected ones at the same instant
C3_Witness ==
    \E ip \in IPs :
        /\ Len(hist[ip]) = quota + 2
        /\ \A i \in 1..quota : hist[ip][i].ok
        /\ ~hist[ip][quota + 1].ok
        /\ ~hist[ip][quota + 2].ok
        /\ hist[ip][quota + 2].t = hist[ip][quota + 1].t
        /\ Len(Stored(ip)) = quota

\* how many calls of checkRateLimit(ip) in a row at instant t are admitted,
\* starting from the map log
FreeSlots(log, ip, t) ==
    LET st == Burst([log |-> log, hist |-> NoHist], ip, t, quota + 1)
    IN  Len(AdmittedTimes(st.hist[ip]))

\* how many stored timestamps of ip have left the window at instant t
Expired(ip, t) ==
    Cardinality({i \in 1..Len(Stored(ip)) : Stored(ip)[i] <= t - windowMs})

\* the instants of the calls h, and their decisions
CallTimes(h) == [i \in 1..Len(h) |-> h[i].t]

CallDecisions(h) == [i \in 1..Len(h) |-> h[i].ok]

\* C4: when an identity's stored sequence is full (quota timestamps), a call
\* made more than the window after its oldest timestamp is admitted, and the
\* number of calls in a row that are admitted now is the number of stored
\* timestamps that have expired; and with quota 2 and window 1000 ms the
\* calls at 0, 100, 200, 1001 are admitted, admitted, rejected, admitted
\* and leave <<100, 1001>> stored.
C4_SlotPerExpiredTimestamp ==
    \A ip \in IPs :
        /\ Len(Stored(ip)) = quota =>
              /\ now > Stored(ip)[1] + windowMs => Allowed(requestLog, ip, now)
              /\ FreeSlots(requestLog, ip, now) = Expired(ip, now)
        /\ ( /\ quota = 2 /\ windowMs = 1000
             /\ CallTimes(hist[ip]) = <<0, 100, 200, 1001>> ) =>
              /\ CallDecisions(hist[ip]) = <<TRUE, TRUE, FALSE, TRUE>>
              /\ Stored(ip) = <<100, 1001>>

\* the scenario has run: after using up its quota and being rejected, the
\* identity was admitted once its oldest timestamp had expired
C4_Witness ==
    /\ quota = 2 /\ windowMs = 1000
    /\ CallTimes(hist["a"]) = <<0, 100, 200, 1001>>
    /\ ~hist["a"][3].ok /\ hist["a"][4].ok
    /\ now = 1001

\* C5: a checkRateLimit call for one identity, admitted or rejected, leaves
\* every other identity's entry as it was, and the decisions and the stored
\* sequence of each identity are those its own calls yield on a limiter
\* that serves no other identity.
C5_IndependentQuotas ==
    /\ [][\A ip \in IPs :
            hist'[ip] # hist[ip] =>
                \A other \in IPs \ {ip} :
                    /\ (other \in DOMAIN requestLog') = (other \in DOMAIN requestLog)
                    /\ Requests(requestLog', other) = Requests(requestLog, other)
                    /\ hist'[other] = hist[other]]_vars
    /\ [](\A ip \in IPs :
            LET alone == Replay([log |-> EmptyMap, hist |-> NoHist], ip,
                                CallTimes(hist[ip]), Len(hist[ip]))
            IN  /\ alone.hist[ip] = hist[ip]
                /\ Requests(alone.log, ip) = Stored(ip))

\* identity "a" has used up its quota and been refused, and "unknown" has
\* just been admitted
C5_Witness ==
    /\ hist["a"] # <<>>
    /\ ~hist["a"][Len(hist["a"])].ok
    /\ last.step = "entry" /\ last.ip = "unknown" /\ last.status # 429
    /\ Len(Stored("unknown")) = 1

\* C6: after a checkRateLimit call for an identity, admitted or rejected,
\* every timestamp stored for it is strictly later than the instant of that
\* call minus the window.
C6_NoStaleAfterCheck ==
    \A ip \in IPs :
        hist[ip] # <<>> =>
            \A i \in 1..Len(Stored(ip)) :
                Stored(ip)[i] > hist[ip][Len(hist[ip])].t - windowMs

\* a call has dropped an admitted timestamp exactly one window old, and the
\* identity's latest call was made at that instant
C6_Witness ==
    \E ip \in IPs :
        /\ hist[ip] # <<>>
        /\ hist[ip][1].ok
        /\ hist[ip][Len(hist[ip])].t = hist[ip][1].t + windowMs
        /\ \A i \in 1..Len(Stored(ip)) : Stored(ip)[i] # hist[ip][1].t

\* the positions of a step in a trace
Positions(trace, label) == {i \in 1..Len(trace) : trace[i] = label}

Has(trace, label) == Positions(trace, label) # {}

\* every occurrence of step a in the trace comes before every occurrence of b
Before(trace, a, b) ==
    \A i \in Positions(trace, a), j \in Positions(trace, b) : i < j

\* the steps the handler takes on a request's payload and towards an answer
WorkSteps ==
    {"destructure", "validate", "apiKey", "buildAnalysisPrompt",
     "messages.create", "catch", "respond"}

\* C7 as stated: for every request, of any method, the handler calls
\* checkRateLimit exactly once, before its method checks, before any
\* validation or API call and before it answers.
C7_Original ==
    last.step = "entry" =>
        /\ Cardinality(Positions(last.trace, "checkRateLimit")) = 1
        /\ \A s \in WorkSteps \cup {"isOptions", "isPost"} :
               Before(last.trace, "checkRateLimit", s)

\* C7 as amended: for a POST request the handler calls checkRateLimit
\* exactly once, after the CORS headers and the two method checks and before
\* it reads or validates the payload, reads the API key, calls the external
\* API or answers; an OPTIONS request (200) and any other non-POST request
\* (405) are answered without a call of checkRateLimit.
C7_OncePerPost ==
    /\ [](last.step = "entry" =>
            IF last.method = "POST"
            THEN /\ Cardinality(Positions(last.trace, "checkRateLimit")) = 1
                 /\ \A s \in WorkSteps : Before(last.trace, "checkRateLimit", s)
                 /\ \A s \in {"setHeader", "isOptions", "isPost"} :
                        /\ Has(last.trace, s)
                        /\ Before(last.trace, s, "checkRateLimit")
            ELSE /\ ~Has(last.trace, "checkRateLimit")
                 /\ last.status = IF last.method = "OPTIONS" THEN 200 ELSE 405)
    /\ [][last'.step = "entry" =>
            /\ ncalls' = ncalls + IF last'.method = "POST" THEN 1 ELSE 0
            /\ last'.method # "POST" => UNCHANGED <<requestLog, hist, pending>>]_vars

\* a POST request has been rate-checked, validated and forwarded to the
\* external API, where its invocation is suspended
C7_Witness ==
    /\ last.step = "entry" /\ last.method = "POST" /\ last.status = 0
    /\ Has(last.trace, "messages.create")
    /\ ncalls > 0

\* C8: a request refused by checkRateLimit is answered 429 right after the
\* check (no payload is read or validated, no API key read, no API call
\* made or left suspended), with the rate limiter's map as it was before the
\* request; and a request whose check was refused gets no other answer.
C8_RejectedAnswers429 ==
    /\ [](last.step = "entry" /\ last.method = "POST" =>
            /\ last.status = 429 <=> ~hist[last.ip][Len(hist[last.ip])].ok
            /\ last.status = 429 =>
                  last.trace = <<"setHeader", "isOptions", "isPost",
                                 "checkRateLimit", "respond">>)
    /\ [][last'.step = "entry" /\ last'.status = 429 =>
            /\ requestLog' = requestLog
            /\ pending' = pending]_vars

\* a request has been refused while its identity's quota is full
C8_Witness ==
    /\ last.step = "entry" /\ last.status = 429
    /\ Len(Stored(last.ip)) = quota

\* C9 as stated: an admitted POST request reaches the external API only if
\* none of the five fields is missing or empty, after the admitting check
\* and the validation; and if any field is missing it is answered 400 with
\* no API call.
C9_Claim ==
    (last.step = "entry" /\ last.method = "POST" /\ last.status # 429) =>
        /\ Has(last.trace, "messages.create") =>
              /\ ~last.missing
              /\ Before(last.trace, "checkRateLimit", "validate")
              /\ Before(last.trace, "validate", "messages.create")
        /\ last.missing =>
              /\ last.status = 400
              /\ ~Has(last.trace, "messages.create")

\* C10: with invocations suspended at the external API call and others
\* handled meanwhile, no admitted call is lost: each identity's stored
\* sequence is exactly its admitted instants that lie within the window of
\* its latest admitted one, and no more than quota of its admitted calls
\* lie in the window ending now.
C10_NoLostUpdate ==
    \A ip \in IPs :
        LET adm == AdmittedTimes(hist[ip])
        IN  /\ Stored(ip) =
                  IF adm = <<>> THEN <<>>
                  ELSE SelectSeq(adm, LAMBDA t : t > adm[Len(adm)] - windowMs)
            /\ CountAfter(adm, now - windowMs) <= quota

\* a request of an identity has been admitted and suspended at the API call
\* while an earlier invocation of the same identity was still suspended
\* there, and both timestamps are stored
C10_Witness ==
    /\ pending = 2
    /\ last.step = "entry" /\ last.status = 0
    /\ Len(hist[last.ip]) = 2
    /\ Stored(last.ip) = AdmittedTimes(hist[last.ip])

\* the user-facing outcome of a response: its status and its error text
Outcome(r) == <<r.status, r.error>>

\* the outcomes with which the handler answers the failures of one kind, for
\* the requests of the model arriving now
OutcomesOf(cause) ==
    IF cause = "upstream"
    THEN {Outcome(CatchResponse(e)) : e \in ErrStatuses}
    ELSE {Outcome(HandlerSync(req.method, ClientIp(req.origin[1], req.origin[2]),
                              req.body, req.apiKey, requestLog, now)) :
            req \in {q \in Reqs : FailureOf(q, requestLog, now) = cause}}

Causes == {"ratelimit", "fields", "config", "upstream"}

\* C11 as stated: a missing API key, missing required fields, an upstream
\* failure and a rate-limit rejection are answered with pairwise distinct
\* outcomes: the answer to a failure of one kind is never an answer the
\* handler gives to a failure of another kind.
C11_Claim ==
    last.cause # "none" =>
        \A other \in Causes \ {last.cause} :
            Outcome(last) \notin OutcomesOf(other)

\* C12: a rate-checked request that carries neither a forwarded-for value
\* nor a remote address is keyed by "unknown"; its call is decided on the
\* "unknown" bucket exactly as a call of any other key is (admitted or
\* refused, and answered 429 when refused), it is recorded in that one bucket and in no other,
\* and within any trailing window the requests without identity are
\* admitted at most quota times between them.
C12_UnknownBucket ==
    /\ [][last'.anon =>
            /\ last'.ip = "unknown"
            /\ hist' = HistAfter(hist, requestLog, "unknown", now)
            /\ requestLog' = LogAfter(requestLog, "unknown", now)
            /\ (last'.status = 429) = ~Allowed(requestLog, "unknown", now)]_vars
    /\ [](/\ Len(Stored("unknown")) <= quota
           /\ CountAfter(AdmittedTimes(hist["unknown"]), now - windowMs) <= quota)

\* the requests without identity have used up the quota between them, and
\* one more of them has just been refused
C12_Witness ==
    /\ last.step = "entry" /\ last.anon /\ last.status = 429
    /\ Len(Stored("unknown")) = quota
    /\ Len(hist["unknown"]) = quota + 1
    /\ ~hist["unknown"][quota + 1].ok
    /\ hist["a"] = <<>>

\* what the map may hold for the identities other than the one that calls:
\* no entry, or an entry of one timestamp or of a full quota of them
OtherEntries ==
    {[present |-> FALSE, seq |-> <<>>]}
    \cup {[present |-> TRUE, seq |-> [i \in 1..n |-> now]] : n \in {1, quota}}

\* the map log with the entry of every identity but ip replaced by alt
WithOthers(log, ip, alt) ==
    [k \in (DOMAIN log \cap {ip}) \cup (IF alt.present THEN IPs \ {ip} ELSE {})
        |-> IF k = ip THEN log[ip] ELSE alt.seq]

\* the decision of a call of ip on log at instant t, with the sequence it
\* leaves stored for ip
DecisionOn(log, ip, t) ==
    [ok |-> Allowed(log, ip, t), stored |-> Requests(LogAfter(log, ip, t), ip)]

\* C13: each call's decision and the sequence it leaves stored are those
\* checkRateLimit yields from the caller's stored sequence and the instant
\* of the call: they stay the same when the entries of the other identities
\* are replaced by anything else, and two identities with equal stored
\* sequences get equal decisions and equal resulting sequences.
C13_PureDecision ==
    /\ [][\A ip \in IPs :
            hist'[ip] # hist[ip] =>
                /\ hist'[ip][Len(hist'[ip])].ok = DecisionOn(requestLog, ip, now).ok
                /\ Requests(requestLog', ip) = DecisionOn(requestLog, ip, now).stored]_vars
    /\ [](\A ip \in IPs :
            /\ \A alt \in OtherEntries :
                   DecisionOn(WithOthers(requestLog, ip, alt), ip, now)
                       = DecisionOn(requestLog, ip, now)
            /\ \A jp \in IPs :
                   Requests(requestLog, ip) = Requests(requestLog, jp) =>
                       DecisionOn(requestLog, ip, now) = DecisionOn(requestLog, jp, now))

\* an identity with a free slot has just been admitted while the other
\* identity's quota is used up, and a call of either would now be decided
\* differently
C13_Witness ==
    \E ip \in IPs : \E jp \in IPs \ {ip} :
        /\ last.step = "entry" /\ last.ip = ip /\ last.status # 429
        /\ Len(Stored(jp)) = quota
        /\ DecisionOn(requestLog, ip, now).ok
        /\ ~DecisionOn(requestLog, jp, now).ok

\* C14: an identity has an entry exactly when checkRateLimit has been called
\* for it, an entry is never empty, and no step removes an entry: the set of
\* identities with an entry never shrinks.
C14_EntriesPersist ==
    /\ [][DOMAIN requestLog \subseteq DOMAIN requestLog']_vars
    /\ [](\A ip \in IPs :
            /\ (ip \in DOMAIN requestLog) <=> (hist[ip] # <<>>)
            /\ ip \in DOMAIN requestLog => requestLog[ip] # <<>>)

\* one identity's entry holds only timestamps a window old or older, the
\* other identity has just made its first call and got its entry
C14_Witness ==
    \E ip \in IPs : \E jp \in IPs \ {ip} :
        /\ ip \in DOMAIN requestLog
        /\ \A i \in 1..Len(requestLog[ip]) : requestLog[ip][i] <= now - windowMs
        /\ last.step = "entry" /\ last.ip = jp
        /\ Len(hist[jp]) = 1
        /\ jp \in DOMAIN requestLog

\* C15: a stored timestamp exactly one window old is discarded by a call and
\* does not count: a call of an identity whose entry holds quota timestamps
\* (the oldest first) is admitted if and only if it is made at the oldest
\* timestamp plus the window or later, so it is refused one millisecond
\* earlier, and no timestamp equal to now - windowMs is left stored.
C15_InclusivePruning ==
    [][\A ip \in IPs :
          (hist'[ip] # hist[ip] /\ Len(Stored(ip)) = quota) =>
              LET oldest == Stored(ip)[1]
                  after  == Requests(requestLog', ip)
              IN  /\ hist'[ip][Len(hist'[ip])].ok <=> now >= oldest + windowMs
                  /\ now >= oldest + windowMs =>
                         \A i \in 1..Len(after) : after[i] # now - windowMs]_vars

\* an identity with its quota used up at instant 0 has been refused at
\* windowMs - 1 and admitted at windowMs
C15_Witness ==
    \E ip \in IPs :
        /\ Len(hist[ip]) = quota + 2
        /\ \A i \in 1..quota : hist[ip][i].t = 0 /\ hist[ip][i].ok
        /\ hist[ip][quota + 1].t = windowMs - 1 /\ ~hist[ip][quota + 1].ok
        /\ hist[ip][quota + 2].t = windowMs /\ hist[ip][quota + 2].ok
        /\ CountAfter(Stored(ip), 0) = Len(Stored(ip))

\* whether the sequence q holds the timestamp x
Holds(q, x) == \E i \in 1..Len(q) : q[i] = x

\* C16: a POST request that checkRateLimit admits leaves its timestamp
\* stored and one more timestamp of its identity in the window, whether the
\* handler then answers 400 or 500 or suspends at the API call; the step
\* that later answers for the API call (200, 401 or 500) leaves the map as
\* it is; an OPTIONS or another non-POST request leaves the map and the
\* call record as they are; and no step takes away a timestamp that is
\* still inside the window (a timestamp leaves the map only by the pruning
\* of checkRateLimit, once it is a window old).
C16_SlotConsumed ==
    [][/\ (last'.step = "entry" /\ last'.ip # None /\ last'.status # 429) =>
            LET before == Stored(last'.ip)
                after  == Requests(requestLog', last'.ip)
            IN  /\ last'.status \in {400, 500, 0}
                /\ after # <<>> /\ after[Len(after)] = now
                /\ CountAfter(after, now - windowMs)
                       = CountAfter(before, now - windowMs) + 1
       /\ last'.step = "resume" =>
            /\ last'.status \in {200, 401, 500}
            /\ requestLog' = requestLog
       /\ (last'.step = "entry" /\ last'.method # "POST") =>
            /\ last'.status \in {200, 405}
            /\ requestLog' = requestLog /\ hist' = hist
       /\ \A ip \in DOMAIN requestLog :
            \A i \in 1..Len(requestLog[ip]) :
                requestLog[ip][i] > now' - windowMs =>
                    Holds(Requests(requestLog', ip), requestLog[ip][i])]_vars

\* the one request served took the last slot of its identity and was
\* forwarded, the API call has failed and been answered 401 or 500, and the
\* timestamp of the request is still stored
C16_Witness ==
    /\ last.step = "resume" /\ last.cause = "upstream"
    /\ last.status \in {401, 500}
    /\ ncalls = 1 /\ pending = 0
    /\ \E ip \in IPs :
         /\ hist[ip] # <<>>
         /\ hist[ip][Len(hist[ip])].ok
         /\ Len(Stored(ip)) = quota
         /\ Stored(ip)[quota] = hist[ip][Len(hist[ip])].t
         /\ Stored(ip)[quota] = 100

=============================================================================
